---------------------------- MODULE Spec2Model ----------------------------
(***************************************************************************)
(* State-machine model of the esp32-hue core:                              *)
(*   - utils/executor.rs : Executor::run, the waker protocol               *)
(*   - utils/timer.rs    : EspTimer::after, EspTimer::handle_callback      *)
(*   - driver/rmt.rs     : Rmt::write, tx_translate_iterator               *)
(* Each subsystem has its own next-state relation and specification; the   *)
(* variables of the other subsystems stay at their initial values.         *)
(***************************************************************************)
EXTENDS Integers, Sequences, FiniteSets, TLC

(***************************************************************************)
(* Bounds of the model.                                                    *)
(***************************************************************************)
\* largest number of tasks handed to one Executor::run call
MaxTasks == 2
\* number of Executor::run calls made, one after the other, on one Executor
MaxRuns == 2

(***************************************************************************)
(* usize arithmetic of `pending_futures`.  2^32 is beyond the integers of   *)
(* the model checker, so the values that `0 - 1` produces in a build       *)
(* without overflow checks are kept as one value, -1: usize::MAX and the   *)
(* values just below it, which further decrements reach and from which 0   *)
(* is 2^32 - MaxTasks decrements away.  Unsigned `x > 0` is then `x # 0`.  *)
(***************************************************************************)
UsizeGtZero(v) == v # 0
WrappingDec(v) == IF v <= 0 THEN -1 ELSE v - 1

TaskIds == 0 .. (MaxTasks - 1)
RunIds == 1 .. MaxRuns
\* largest number of EspTimer::after calls on the timer
MaxWaits == 3
\* largest timeout, in ticks of the esp_timer
MaxTimeout == 3
\* largest number of items of a producer handed to Rmt::write
MaxItems == 3
\* largest wanted_num the transfer asks of the translation callback
MaxWanted == 2

\* the foreign context that holds and invokes waker clones: the dispatch
\* context of the esp_timer callback (interrupt handler or timer task)
\* RmtItem durations are drawn from the DurationSpan + 1 lowest and highest
\* values of the 15-bit and of the 16-bit range
DurationSpan == 2
\* nanos_to_ticks durations are drawn from 0 .. NanosSpan above each base
NanosSpan == 2
\* at most MaxClones cloned wakers are alive at a time
MaxClones == 3
\* Ws2811::show is given at most MaxGroups groups of at most MaxLeds leds
MaxGroups == 2
MaxLeds == 3

Ctxs == {"timer"}
NoWaker == << >>

VARIABLES
    \* ---- utils/executor.rs
    enqueue_task,     \* ExecutorState.enqueue_task: 0 = None, r = closure of run r
    lock,             \* Executor.state spin mutex: "free" or the context holding it
    run,              \* number of the current (or last) Executor::run call
    pc,               \* position of the thread inside Executor::run
    ntasks,           \* tasks.len() of the current run
    qn,               \* const generic N of the current run
    queue,            \* spsc::Queue<TaskId, N> of the current run
    notified,         \* pending task notification of the run-loop thread
    pending_futures,  \* local `pending_futures`
    cur,              \* local `task_id` of the inner loop
    poll_res,         \* result of the poll in progress
    is_queued,        \* TaskHandleData.is_queued of the handles of every run
    completed,        \* whether the future tasks[t] has returned Ready
    panicked,         \* "none" or the panic that ended the program
    ctx_waker,        \* waker clone held by each foreign context
    ctx_pc,           \* position of each context inside enqueue_task
    stale_discarded,  \* history: a wake was discarded since the last return of run
    \* ---- utils/timer.rs
    timer_handle,     \* EspTimer.handle: FALSE = None, TRUE = created by init
    timer_waker,      \* EspTimer.waker: FALSE = None, TRUE = Some(waker)
    alarm_armed,      \* the esp_timer is running (started, not yet fired)
    alarm_left,       \* ticks until the running esp_timer fires
    alarm_owner,      \* history: number of the wait that started the alarm
    fut,              \* the future of the latest after(): none/new/pending/ready
    fut_timeout,      \* `timeout` captured by the future
    waits,            \* history: number of after() calls so far
    fut_arms,         \* history: times the current future started the alarm
    fut_pendings,     \* history: times the current future returned Pending
    fut_fired,        \* history: the alarm started by the current future fired
    task_woken,       \* the captured waker was woken since the last poll
    timer_panicked,   \* esp_nofail! aborted the program
    \* ---- driver/rmt.rs
    rmt_phase,        \* transfer: idle / active / done / aborted
    rmt_src,          \* history: the items the producer was created with
    rmt_iter,         \* items the boxed iterator has not yet yielded
    rmt_boxed,        \* the Box<T> leaked by Rmt::write is still allocated
    rmt_released,     \* history: times the Box was dropped
    rmt_out,          \* history: all items written to dest so far, in order
    rmt_wanted,       \* wanted_num of the latest callback invocation
    rmt_item_num,     \* *item_num of the latest callback invocation
    rmt_translated,   \* *translated_size of the latest callback invocation
    rmt_exhausted,    \* history: next() returned None in the latest invocation
    \* ---- driver/rmt.rs : RmtItem
    item_pc,          \* "args" / "encoded" / "decoded"
    item_args,        \* << duration0, level0, duration1, level1 >> given to new
    item_bits,        \* RmtItem.0, the u32 as the set of its set bit positions
    item_decoded,     \* << duration0(), level0(), duration1(), level1() >>
    \* ---- driver/ws2811.rs : nanos_to_ticks
    tk_hz,            \* ticks_hz
    tk_durs,          \* two durations d1 <= d2, converted one after the other
    tk_res,           \* the results so far, in the order of tk_durs
    \* ---- driver/ws2811.rs : Ws2811::show
    show_pc,          \* "args" / "shown"
    show_groups,      \* the ColorGroups the iterator yields
    show_items,       \* the items handed to start_iter_blocking, in order
    \* ---- driver/ws2811.rs : Ws2811::set_led_timings
    led_zero,         \* Ws2811.zero_item, as the set of its set bit positions
    led_one,          \* Ws2811.one_item
    led_call,         \* history: << clock_hz, timings >> of the latest call
    led_before,       \* history: << zero_item, one_item >> before that call
    led_res,          \* history: "none", or "ok" / "overflow" of that call
    \* ---- utils/executor.rs : TaskHandle, the waker vtable
    rc_run,           \* number of the current (or last) run
    rc_active,        \* run is active and holds task_handles
    rc_lent,          \* task whose AsWaker is lent to a poll, -1: none
    rc_strong,        \* Arc strong count of the handle of each run and task
    rc_clones,        \* history: live cloned wakers of each handle
    rc_destroyed,     \* history: times the TaskHandleData was destroyed
    rc_ub,            \* history: a vtable function was given freed data
    rc_last           \* history: the vtable function called last

execVars == << enqueue_task, lock, run, pc, ntasks, qn, queue, notified,
               pending_futures, cur, poll_res, is_queued, completed,
               panicked, ctx_waker, ctx_pc, stale_discarded >>

timerVars == << timer_handle, timer_waker, alarm_armed, alarm_left,
                alarm_owner, fut, fut_timeout, waits, fut_arms, fut_pendings,
                fut_fired, task_woken, timer_panicked >>

rmtVars == << rmt_phase, rmt_src, rmt_iter, rmt_boxed, rmt_released, rmt_out,
              rmt_wanted, rmt_item_num, rmt_translated, rmt_exhausted >>

itemVars == << item_pc, item_args, item_bits, item_decoded >>

ticksVars == << tk_hz, tk_durs, tk_res >>

showVars == << show_pc, show_groups, show_items >>

ledVars == << led_zero, led_one, led_call, led_before, led_res >>

rcVars == << rc_run, rc_active, rc_lent, rc_strong, rc_clones, rc_destroyed,
            rc_ub, rc_last >>

pureVars == << itemVars, ticksVars, showVars, ledVars, rcVars >>

vars == << execVars, timerVars, rmtVars, pureVars >>

(***************************************************************************)
(* heapless::spsc::Queue<T, N> keeps one slot free to tell full from       *)
(* empty: it holds at most N - 1 items (light.rs runs one task with N = 2).*)
(***************************************************************************)
QueueCapacity(n) == n - 1

\* spsc Producer::enqueue: Err(item) when the queue is full
QueueFull(q, n) == Len(q) >= QueueCapacity(n)

\* number of entries of task id t in the queue q
Entries(q, t) == Cardinality({i \in 1 .. Len(q) : q[i] = t})

ExecInit ==
    /\ enqueue_task = 0
    /\ lock = "free"
    /\ run = 0
    /\ pc = "idle"
    /\ ntasks = 0
    /\ qn = 0
    /\ queue = << >>
    /\ notified = FALSE
    /\ pending_futures = 0
    /\ cur = 0
    /\ poll_res = "none"
    /\ is_queued = [r \in RunIds |-> [t \in TaskIds |-> FALSE]]
    /\ completed = [t \in TaskIds |-> FALSE]
    /\ panicked = "none"
    /\ ctx_waker = [c \in Ctxs |-> NoWaker]
    /\ ctx_pc = [c \in Ctxs |-> "idle"]
    /\ stale_discarded = FALSE

\* no panic has ended the program
Running == panicked = "none"

\* a run call is between entry and return
RunActive == pc # "idle"

(***************************************************************************)
(* Arc<TaskHandleData>: the data of a handle lives while Executor::run     *)
(* holds its TaskHandle (task_handles, until run returns) or a waker clone *)
(* exists.  The flag of a destroyed handle is forgotten.                   *)
(***************************************************************************)
HandleAlive(r, t, wakers, active) ==
    \/ r = active
    \/ \E c \in Ctxs : wakers[c] = << r, t >>

Reclaim(isq, wakers, active) ==
    [r \in RunIds |-> [t \in TaskIds |->
        IF HandleAlive(r, t, wakers, active) THEN isq[r][t] ELSE FALSE]]

(***************************************************************************)
(* The closure `enqueue_task` built by Executor::run:                      *)
(*   send.enqueue(task_id).expect("task queue full"); notify(thread, 1)    *)
(***************************************************************************)
EnqueueClosure(t) ==
    IF QueueFull(queue, qn)
    THEN /\ panicked' = "queue_full"
         /\ UNCHANGED << queue, notified >>
    ELSE /\ queue' = Append(queue, t)
         /\ notified' = TRUE
         /\ UNCHANGED panicked

\* ExecutorState::enqueue_task: call the registered closure, or log and drop
ExecutorState_enqueue_task(t) ==
    IF enqueue_task = 0
    THEN UNCHANGED << queue, notified, panicked >>
    ELSE EnqueueClosure(t)

(***************************************************************************)
(* Executor::run, entry: the queue and the handles are built; every task   *)
(* id is enqueued (`expect("task queue full")`), every handle starts with  *)
(* is_queued = false (TaskHandle::new).                                    *)
(***************************************************************************)
InitialQueue(n) == [i \in 1 .. n |-> i - 1]

RunStart(n, cn) ==
    /\ Running
    /\ UNCHANGED << timerVars, rmtVars, pureVars >>
    /\ pc = "idle"
    /\ run < MaxRuns
    /\ run' = run + 1
    /\ ntasks' = n
    /\ qn' = cn
    /\ IF n > QueueCapacity(cn)
       THEN /\ panicked' = "queue_full"
            /\ queue' = InitialQueue(QueueCapacity(cn))
       ELSE /\ queue' = InitialQueue(n)
            /\ UNCHANGED panicked
    /\ is_queued' = [is_queued EXCEPT ![run + 1] = [t \in TaskIds |-> FALSE]]
    /\ completed' = [t \in TaskIds |-> FALSE]
    /\ pc' = "register"
    /\ stale_discarded' = FALSE
    /\ UNCHANGED << enqueue_task, lock, notified, pending_futures, cur,
                    poll_res, ctx_waker, ctx_pc >>

\* lines 74-92: register the closure under the lock, notify the own thread,
\* pending_futures = tasks.len()
RunRegister ==
    /\ Running
    /\ UNCHANGED << timerVars, rmtVars, pureVars >>
    /\ pc = "register"
    /\ lock = "free"
    /\ enqueue_task' = run
    /\ notified' = TRUE
    /\ pending_futures' = ntasks
    /\ pc' = "loop"
    /\ UNCHANGED << lock, run, ntasks, qn, queue, cur, poll_res,
                    is_queued, completed, panicked, ctx_waker, ctx_pc,
                    stale_discarded >>

\* line 93: while pending_futures > 0
RunLoop ==
    /\ Running
    /\ UNCHANGED << timerVars, rmtVars, pureVars >>
    /\ pc = "loop"
    /\ pc' = IF UsizeGtZero(pending_futures) THEN "wait" ELSE "teardown"
    /\ UNCHANGED << enqueue_task, lock, run, ntasks, qn, queue, notified,
                    pending_futures, cur, poll_res, is_queued,
                    completed, panicked, ctx_waker, ctx_pc, stale_discarded >>

\* line 94: wait_notification(None) blocks until the thread is notified
RunWait ==
    /\ Running
    /\ UNCHANGED << timerVars, rmtVars, pureVars >>
    /\ pc = "wait"
    /\ notified
    /\ notified' = FALSE
    /\ pc' = "drain"
    /\ UNCHANGED << enqueue_task, lock, run, ntasks, qn, queue,
                    pending_futures, cur, poll_res, is_queued,
                    completed, panicked, ctx_waker, ctx_pc, stale_discarded >>

\* mutant of RunDequeue: the newest entry is taken instead of the oldest
RunDequeue_Lifo ==
    /\ Running
    /\ UNCHANGED << timerVars, rmtVars, pureVars >>
    /\ pc = "drain"
    /\ IF queue # << >>
       THEN /\ cur' = queue[Len(queue)]
            /\ queue' = SubSeq(queue, 1, Len(queue) - 1)
            /\ IF queue[Len(queue)] < ntasks
               THEN pc' = "clear" /\ UNCHANGED panicked
               ELSE panicked' = "index" /\ UNCHANGED pc
       ELSE /\ pc' = "loop"
            /\ UNCHANGED << cur, queue, panicked >>
    /\ UNCHANGED << enqueue_task, lock, run, ntasks, qn, notified,
                    pending_futures, poll_res, is_queued,
                    completed, ctx_waker, ctx_pc, stale_discarded >>

\* line 96: while let Some(task_id) = receive.dequeue()
\* line 97: task_handles[task_id] panics on an id that is no index of the Vec
RunDequeue ==
    /\ Running
    /\ UNCHANGED << timerVars, rmtVars, pureVars >>
    /\ pc = "drain"
    /\ IF queue # << >>
       THEN /\ cur' = Head(queue)
            /\ queue' = Tail(queue)
            /\ IF Head(queue) < ntasks
               THEN pc' = "clear" /\ UNCHANGED panicked
               ELSE panicked' = "index" /\ UNCHANGED pc
       ELSE /\ pc' = "loop"
            /\ UNCHANGED << cur, queue, panicked >>
    /\ UNCHANGED << enqueue_task, lock, run, ntasks, qn, notified,
                    pending_futures, poll_res, is_queued,
                    completed, ctx_waker, ctx_pc, stale_discarded >>

\* lines 97-98: handle.0.is_queued.store(false)
RunClear ==
    /\ Running
    /\ UNCHANGED << timerVars, rmtVars, pureVars >>
    /\ pc = "clear"
    /\ is_queued' = [is_queued EXCEPT ![run][cur] = FALSE]
    /\ pc' = "poll"
    /\ UNCHANGED << enqueue_task, lock, run, ntasks, qn, queue, notified,
                    pending_futures, cur, poll_res, completed,
                    panicked, ctx_waker, ctx_pc, stale_discarded >>

(***************************************************************************)
(* lines 100-104: the task is polled once with the waker of its handle.    *)
(* The future is the caller's: the poll answers Pending or Ready, may hand *)
(* a clone of the waker to a foreign context c ("none": no clone) and may  *)
(* wake itself (wake_by_ref).  A future polled again after it returned     *)
(* Ready may answer anything, or panic.                                    *)
(***************************************************************************)
PollAnswers(t) ==
    IF completed[t]
    THEN {"pending", "ready", "panic"}
    ELSE {"pending", "ready"}

RunPoll(res, c, sw) ==
    /\ Running
    /\ UNCHANGED << timerVars, rmtVars, pureVars >>
    /\ pc = "poll"
    /\ res \in PollAnswers(cur)
    /\ c # "none" => ctx_pc[c] = "idle"
    /\ poll_res' = res
    /\ completed' = IF res = "ready"
                    THEN [completed EXCEPT ![cur] = TRUE] ELSE completed
    /\ ctx_waker' = IF c # "none"
                    THEN [ctx_waker EXCEPT ![c] = << run, cur >>]
                    ELSE ctx_waker
    /\ panicked' = IF res = "panic" THEN "repoll" ELSE panicked
    \* wake_by_ref inside the poll: the compare_exchange of enqueue_task
    /\ LET won == sw /\ ~is_queued[run][cur]
           isq == IF won THEN [is_queued EXCEPT ![run][cur] = TRUE]
                         ELSE is_queued
       IN  /\ is_queued' = Reclaim(isq, ctx_waker', run)
           /\ pc' = IF won THEN "self_enqueue" ELSE "polled"
    /\ UNCHANGED << enqueue_task, lock, run, ntasks, qn, queue, notified,
                    pending_futures, cur, ctx_pc, stale_discarded >>

\* the self-wake that won the compare_exchange takes the lock and enqueues
RunSelfEnqueue ==
    /\ Running
    /\ UNCHANGED << timerVars, rmtVars, pureVars >>
    /\ pc = "self_enqueue"
    /\ lock = "free"
    /\ ExecutorState_enqueue_task(cur)
    /\ pc' = "polled"
    /\ UNCHANGED << enqueue_task, lock, run, ntasks, qn, pending_futures,
                    cur, poll_res, is_queued, completed,
                    ctx_waker, ctx_pc, stale_discarded >>

(***************************************************************************)
(* lines 104-106: if poll(..).is_ready() { pending_futures -= 1 }, then    *)
(* back to the dequeue.  usize subtraction at 0 panics in a build with     *)
(* overflow checks and wraps in a build without.                           *)
(***************************************************************************)
RunPolled ==
    /\ Running
    /\ UNCHANGED << timerVars, rmtVars, pureVars >>
    /\ pc = "polled"
    /\ poll_res' = "none"
    /\ UNCHANGED << enqueue_task, lock, run, ntasks, qn, queue, notified,
                    cur, is_queued, completed, ctx_waker,
                    ctx_pc, stale_discarded >>
    /\ IF poll_res = "ready"
       THEN IF UsizeGtZero(pending_futures)
            THEN /\ pending_futures' = WrappingDec(pending_futures)
                 /\ pc' = "drain"
                 /\ UNCHANGED panicked
            ELSE \/ /\ panicked' = "underflow"
                    /\ UNCHANGED << pending_futures, pc >>
                 \/ /\ pending_futures' = WrappingDec(pending_futures)
                    /\ pc' = "drain"
                    /\ UNCHANGED panicked
       ELSE /\ pc' = "drain"
            /\ UNCHANGED << pending_futures, panicked >>

\* mutant of RunTeardown: the closure is cleared without taking the lock
RunTeardown_NoLock ==
    /\ Running
    /\ UNCHANGED << timerVars, rmtVars, pureVars >>
    /\ pc = "teardown"
    /\ enqueue_task' = 0
    /\ pc' = "idle"
    /\ queue' = << >>
    /\ ntasks' = 0
    /\ qn' = 0
    /\ cur' = 0
    /\ notified' = FALSE
    /\ completed' = [t \in TaskIds |-> FALSE]
    /\ is_queued' = Reclaim(is_queued, ctx_waker, 0)
    /\ UNCHANGED << lock, run, pending_futures, poll_res, panicked,
                    ctx_waker, ctx_pc, stale_discarded >>

\* mutant of RunTeardown: run returns without deregistering the closure
RunTeardown_NoDeregister ==
    /\ Running
    /\ UNCHANGED << timerVars, rmtVars, pureVars >>
    /\ pc = "teardown"
    /\ lock = "free"
    /\ pc' = "idle"
    /\ queue' = << >>
    /\ ntasks' = 0
    /\ qn' = 0
    /\ cur' = 0
    /\ notified' = FALSE
    /\ completed' = [t \in TaskIds |-> FALSE]
    /\ is_queued' = Reclaim(is_queued, ctx_waker, 0)
    /\ UNCHANGED << enqueue_task, lock, run, pending_futures, poll_res,
                    panicked, ctx_waker, ctx_pc, stale_discarded >>

(***************************************************************************)
(* lines 110-114: the closure is deregistered under the lock and run       *)
(* returns; queue, handles and the other locals are dropped.               *)
(***************************************************************************)
RunTeardown ==
    /\ Running
    /\ UNCHANGED << timerVars, rmtVars, pureVars >>
    /\ pc = "teardown"
    /\ lock = "free"
    /\ enqueue_task' = 0
    /\ pc' = "idle"
    /\ queue' = << >>
    /\ ntasks' = 0
    /\ qn' = 0
    /\ cur' = 0
    /\ notified' = FALSE
    /\ completed' = [t \in TaskIds |-> FALSE]
    /\ is_queued' = Reclaim(is_queued, ctx_waker, 0)
    /\ UNCHANGED << lock, run, pending_futures, poll_res, panicked,
                    ctx_waker, ctx_pc, stale_discarded >>

(***************************************************************************)
(* A foreign context invokes the waker it holds (waker_wake_by_ref ->      *)
(* TaskHandleData::enqueue_task), in three steps: the compare_exchange,    *)
(* the acquisition of Executor.state, the call under the lock.             *)
(***************************************************************************)
WakeCas(c) ==
    /\ Running
    /\ UNCHANGED << timerVars, rmtVars, pureVars >>
    /\ ctx_pc[c] = "idle"
    /\ ctx_waker[c] # NoWaker
    /\ LET r == ctx_waker[c][1]
           t == ctx_waker[c][2]
       IN  IF is_queued[r][t]
           THEN UNCHANGED << is_queued, ctx_pc >>
           ELSE /\ is_queued' = [is_queued EXCEPT ![r][t] = TRUE]
                /\ ctx_pc' = [ctx_pc EXCEPT ![c] = "lock"]
    /\ UNCHANGED << enqueue_task, lock, run, pc, ntasks, qn, queue, notified,
                    pending_futures, cur, poll_res, completed,
                    panicked, ctx_waker, stale_discarded >>

WakeLock(c) ==
    /\ Running
    /\ UNCHANGED << timerVars, rmtVars, pureVars >>
    /\ ctx_pc[c] = "lock"
    /\ lock = "free"
    /\ lock' = c
    /\ ctx_pc' = [ctx_pc EXCEPT ![c] = "locked"]
    /\ UNCHANGED << enqueue_task, run, pc, ntasks, qn, queue, notified,
                    pending_futures, cur, poll_res, is_queued,
                    completed, panicked, ctx_waker, stale_discarded >>

WakeEnqueue(c) ==
    /\ Running
    /\ UNCHANGED << timerVars, rmtVars, pureVars >>
    /\ ctx_pc[c] = "locked"
    /\ ExecutorState_enqueue_task(ctx_waker[c][2])
    /\ lock' = "free"
    /\ ctx_pc' = [ctx_pc EXCEPT ![c] = "idle"]
    /\ stale_discarded' = (stale_discarded \/ (~RunActive /\ enqueue_task = 0))
    /\ UNCHANGED << enqueue_task, run, pc, ntasks, qn, pending_futures, cur,
                    poll_res, is_queued, completed, ctx_waker >>

\* waker_drop: the context drops its clone
WakerDrop(c) ==
    /\ Running
    /\ UNCHANGED << timerVars, rmtVars, pureVars >>
    /\ ctx_pc[c] = "idle"
    /\ ctx_waker[c] # NoWaker
    /\ ctx_waker' = [ctx_waker EXCEPT ![c] = NoWaker]
    /\ is_queued' = Reclaim(is_queued, ctx_waker',
                            IF RunActive THEN run ELSE 0)
    /\ UNCHANGED << enqueue_task, lock, run, pc, ntasks, qn, queue, notified,
                    pending_futures, cur, poll_res, completed,
                    panicked, ctx_pc, stale_discarded >>

(***************************************************************************)
(*                       utils/timer.rs : EspTimer                         *)
(***************************************************************************)
\* EspTimer::new: no handle, no waker
TimerInit ==
    /\ timer_handle = FALSE
    /\ timer_waker = FALSE
    /\ alarm_armed = FALSE
    /\ alarm_left = 0
    /\ alarm_owner = 0
    /\ fut = "none"
    /\ fut_timeout = 0
    /\ waits = 0
    /\ fut_arms = 0
    /\ fut_pendings = 0
    /\ fut_fired = FALSE
    /\ task_woken = FALSE
    /\ timer_panicked = FALSE

TimerRunning == ~timer_panicked

(***************************************************************************)
(* EspTimer::after(timeout), lines 47-55: the handle is created on first   *)
(* use and a new poll_fn future is returned.  `&'a mut self` keeps the     *)
(* previous future from being alive; the caller has awaited it to its      *)
(* resolution (one outstanding wait at a time).                            *)
(***************************************************************************)
TimerAfter(d) ==
    /\ TimerRunning
    /\ UNCHANGED << execVars, rmtVars, pureVars >>
    /\ fut \in {"none", "ready"}
    /\ waits < MaxWaits
    /\ timer_handle' = TRUE
    /\ fut' = "new"
    /\ waits' = waits + 1
    /\ fut_timeout' = d
    /\ fut_arms' = 0
    /\ fut_pendings' = 0
    /\ fut_fired' = FALSE
    /\ task_woken' = FALSE
    /\ UNCHANGED << timer_waker, alarm_armed, alarm_left, alarm_owner,
                    timer_panicked >>

(***************************************************************************)
(* One poll of the future, lines 55-70.  esp_timer_start_once fails on a   *)
(* timer that is running, and esp_nofail! then aborts.  The poller may     *)
(* poll at any time (a future may be polled without having been woken).    *)
(***************************************************************************)
TimerPoll ==
    /\ TimerRunning
    /\ UNCHANGED << execVars, rmtVars, pureVars >>
    /\ fut \in {"new", "pending"}
    /\ task_woken' = FALSE
    /\ IF ~timer_waker
       THEN /\ timer_waker' = TRUE
            /\ IF alarm_armed
               THEN /\ timer_panicked' = TRUE
                    /\ UNCHANGED << alarm_armed, alarm_left, alarm_owner,
                                    fut, fut_arms, fut_pendings >>
               ELSE /\ alarm_armed' = TRUE
                    /\ alarm_left' = fut_timeout
                    /\ alarm_owner' = waits
                    /\ fut_arms' = fut_arms + 1
                    /\ fut' = "pending"
                    /\ fut_pendings' = fut_pendings + 1
                    /\ UNCHANGED timer_panicked
       ELSE /\ timer_waker' = FALSE
            /\ fut' = "ready"
            /\ UNCHANGED << alarm_armed, alarm_left, alarm_owner, fut_arms,
                            fut_pendings, timer_panicked >>
    /\ UNCHANGED << timer_handle, fut_timeout, waits, fut_fired >>

\* the esp_timer counts down
TimerTick ==
    /\ TimerRunning
    /\ UNCHANGED << execVars, rmtVars, pureVars >>
    /\ alarm_armed
    /\ alarm_left > 0
    /\ alarm_left' = alarm_left - 1
    /\ UNCHANGED << timer_handle, timer_waker, alarm_armed, alarm_owner, fut,
                    fut_timeout, waits, fut_arms, fut_pendings, fut_fired,
                    task_woken, timer_panicked >>

(***************************************************************************)
(* EspTimer::handle_callback, lines 73-83: the one-shot alarm fires; the   *)
(* captured waker, if any, is woken by reference.                          *)
(***************************************************************************)
TimerCallback ==
    /\ TimerRunning
    /\ UNCHANGED << execVars, rmtVars, pureVars >>
    /\ alarm_armed
    /\ alarm_left = 0
    /\ alarm_armed' = FALSE
    /\ task_woken' = (task_woken \/ timer_waker)
    /\ fut_fired' = (fut_fired \/ alarm_owner = waits)
    /\ UNCHANGED << timer_handle, timer_waker, alarm_left, alarm_owner, fut,
                    fut_timeout, waits, fut_arms, fut_pendings,
                    timer_panicked >>

TimerNext ==
    \/ \E d \in 0 .. MaxTimeout : TimerAfter(d)
    \/ TimerPoll
    \/ TimerTick
    \/ TimerCallback

(***************************************************************************)
(*           driver/rmt.rs : Rmt::write, tx_translate_iterator             *)
(***************************************************************************)
\* src_size given to rmt_write_sample by Rmt::write (line 140)
SrcSize == 1

\* the items a producer yields: the two waveform items of the LED protocol
Items == {0, 1}

\* all producers of at most n items
RECURSIVE SeqsUpTo(_)
SeqsUpTo(n) ==
    IF n = 0 THEN {<< >>}
    ELSE LET shorter == SeqsUpTo(n - 1)
         IN  shorter \cup {Append(q, x) : q \in {p \in shorter : Len(p) = n - 1},
                                          x \in Items}

RmtInit ==
    /\ rmt_phase = "idle"
    /\ rmt_src = << >>
    /\ rmt_iter = << >>
    /\ rmt_boxed = FALSE
    /\ rmt_released = 0
    /\ rmt_out = << >>
    /\ rmt_wanted = 0
    /\ rmt_item_num = 0
    /\ rmt_translated = 0
    /\ rmt_exhausted = FALSE

(***************************************************************************)
(* The loop of tx_translate_iterator, lines 160-174: i items written so    *)
(* far, `it` the items the iterator still holds, dest the items written.   *)
(* Result: i, the iterator, dest, `finished`, whether next() returned None *)
(* (and the Box was dropped).                                              *)
(***************************************************************************)
RECURSIVE TxLoop(_, _, _, _, _)
TxLoop(i, it, dest, src_size, wanted_num) ==
    IF i >= wanted_num
    THEN [i |-> i, it |-> it, dest |-> dest, finished |-> 0, none |-> FALSE]
    ELSE IF it # << >>
         THEN TxLoop(i + 1, Tail(it), Append(dest, Head(it)), src_size,
                     wanted_num)
         ELSE [i |-> i, it |-> it, dest |-> dest, finished |-> src_size,
               none |-> TRUE]

\* mutant of tx_translate_iterator: a full chunk reports the source as
\* translated when the iterator happens to be empty
tx_translate_iterator_EagerFinish(it, src_size, wanted_num) ==
    LET r == TxLoop(0, it, << >>, src_size, wanted_num)
    IN  IF r.it = << >> THEN [r EXCEPT !.finished = src_size] ELSE r

tx_translate_iterator(it, src_size, wanted_num) ==
    TxLoop(0, it, << >>, src_size, wanted_num)

\* Rmt::write, lines 125-144: the iterator is boxed, the Box leaked to
\* rmt_write_sample as the source of a transfer of src_size 1
RmtWrite(items) ==
    /\ UNCHANGED << execVars, timerVars, pureVars >>
    /\ rmt_phase = "idle"
    /\ rmt_phase' = "active"
    /\ rmt_src' = items
    /\ rmt_iter' = items
    /\ rmt_boxed' = TRUE
    /\ UNCHANGED << rmt_released, rmt_out, rmt_wanted, rmt_item_num,
                    rmt_translated, rmt_exhausted >>

(***************************************************************************)
(* The transfer invokes the translation callback for the next chunk of at  *)
(* most wanted_num items.  It advances the source by *translated_size and  *)
(* stops invoking the callback once the whole src_size is translated.      *)
(***************************************************************************)
RmtTranslate(wanted_num) ==
    /\ UNCHANGED << execVars, timerVars, pureVars >>
    /\ rmt_phase = "active"
    /\ LET r == tx_translate_iterator(rmt_iter, SrcSize, wanted_num)
       IN  /\ rmt_iter' = r.it
           /\ rmt_out' = rmt_out \o r.dest
           /\ rmt_wanted' = wanted_num
           /\ rmt_item_num' = r.i
           /\ rmt_translated' = r.finished
           /\ rmt_exhausted' = r.none
           /\ rmt_boxed' = (rmt_boxed /\ ~r.none)
           /\ rmt_released' = IF r.none THEN rmt_released + 1
                                        ELSE rmt_released
           /\ rmt_phase' = IF r.finished = SrcSize THEN "done" ELSE "active"
    /\ UNCHANGED rmt_src

\* the transfer is aborted (rmt_tx_stop, driver uninstall): the callback is
\* not invoked again
RmtAbort ==
    /\ UNCHANGED << execVars, timerVars, pureVars >>
    /\ rmt_phase = "active"
    /\ rmt_phase' = "aborted"
    /\ UNCHANGED << rmt_src, rmt_iter, rmt_boxed, rmt_released, rmt_out,
                    rmt_wanted, rmt_item_num, rmt_translated, rmt_exhausted >>

RmtNext ==
    \/ \E items \in SeqsUpTo(MaxItems) : RmtWrite(items)
    \/ \E w \in 1 .. MaxWanted : RmtTranslate(w)
    \/ RmtAbort


(***************************************************************************)
(*                      driver/rmt.rs : RmtItem                            *)
(***************************************************************************)
\* A u32 is the set of the positions of its set bits; a u16 is a number.
U32Bits == 0 .. 31

\* `x as u32` of a u16 or bool value x
AsU32(x) == {i \in 0 .. 15 : (x \div (2 ^ i)) % 2 = 1}
BoolAsU32(b) == IF b THEN {0} ELSE {}

\* `w as u16`: the low 16 bits, as a number
RECURSIVE BitsValue(_)
BitsValue(w) ==
    IF w = {} THEN 0
    ELSE LET i == CHOOSE j \in w : TRUE
         IN  (2 ^ i) + BitsValue(w \ {i})
AsU16(w) == BitsValue(w \cap (0 .. 15))

BitOr(a, b) == a \cup b
BitAnd(a, b) == a \cap b
Shl(w, k) == {i + k : i \in w} \cap U32Bits
Shr(w, k) == {i - k : i \in w} \cap U32Bits

\* the mask literals of the accessors
\* line 193 and 201: 0b01111_1111_1111_1111 (one zero and sixteen ones)
DurationMask == 0 .. 15
\* line 197: 0b1000_0000_0000_0000
Level0Mask == {15}
\* line 205: 0b1000_0000_0000_0000_0000_0000_0000_0000
Level1Mask == {31}

\* RmtItem::new, lines 185-190
RmtItem_new(duration0, level0, duration1, level1) ==
    LET half_period0 == BitOr(AsU32(duration0), Shl(BoolAsU32(level0), 15))
        half_period1 == BitOr(AsU32(duration1), Shl(BoolAsU32(level1), 15))
    IN  BitOr(half_period0, Shl(half_period1, 16))

\* lines 192-206
RmtItem_duration0(w) == AsU16(BitAnd(w, DurationMask))
RmtItem_level0(w) == BitAnd(w, Level0Mask) # {}
RmtItem_duration1(w) == AsU16(BitAnd(Shr(w, 16), DurationMask))
RmtItem_level1(w) == BitAnd(w, Level1Mask) # {}

\* the u16 durations tried: both ends of the 15-bit and of the 16-bit range
Durations ==
    (0 .. DurationSpan) \cup ((32767 - DurationSpan) .. 32767)
    \cup (32768 .. (32768 + DurationSpan)) \cup ((65535 - DurationSpan) .. 65535)

ItemIdle ==
    /\ item_pc = "args"
    /\ item_args = << 0, FALSE, 0, FALSE >>
    /\ item_bits = {}
    /\ item_decoded = << >>

ItemInit ==
    /\ item_pc = "args"
    /\ item_args \in Durations \X BOOLEAN \X Durations \X BOOLEAN
    /\ item_bits = {}
    /\ item_decoded = << >>

ItemEncode ==
    /\ UNCHANGED << execVars, timerVars, rmtVars, ticksVars, showVars, ledVars, rcVars >>
    /\ item_pc = "args"
    /\ item_bits' = RmtItem_new(item_args[1], item_args[2],
                                item_args[3], item_args[4])
    /\ item_pc' = "encoded"
    /\ UNCHANGED << item_args, item_decoded >>

ItemDecode ==
    /\ UNCHANGED << execVars, timerVars, rmtVars, ticksVars, showVars, ledVars, rcVars >>
    /\ item_pc = "encoded"
    /\ item_decoded' = << RmtItem_duration0(item_bits),
                          RmtItem_level0(item_bits),
                          RmtItem_duration1(item_bits),
                          RmtItem_level1(item_bits) >>
    /\ item_pc' = "decoded"
    /\ UNCHANGED << item_args, item_bits >>

ItemNext ==
    \/ ItemEncode
    \/ ItemDecode

(***************************************************************************)
(*                  driver/ws2811.rs : nanos_to_ticks                      *)
(***************************************************************************)
\* The u128 intermediate values exceed the integers of the model checker:
\* a u128 is the sequence of its base-1000 digits, least significant first.
BigBase == 1000

RECURSIVE ToBig(_)
ToBig(n) == IF n = 0 THEN << >> ELSE << n % BigBase >> \o ToBig(n \div BigBase)

RECURSIVE BigToInt(_)
BigToInt(a) == IF a = << >> THEN 0 ELSE Head(a) + BigBase * BigToInt(Tail(a))

RECURSIVE BigNorm(_)
BigNorm(a) ==
    IF a # << >> /\ a[Len(a)] = 0 THEN BigNorm(SubSeq(a, 1, Len(a) - 1)) ELSE a

RECURSIVE BigAddC(_, _, _)
BigAddC(a, b, c) ==
    IF a = << >> /\ b = << >>
    THEN ToBig(c)
    ELSE LET x == (IF a = << >> THEN 0 ELSE Head(a))
                  + (IF b = << >> THEN 0 ELSE Head(b)) + c
         IN  << x % BigBase >>
             \o BigAddC(IF a = << >> THEN a ELSE Tail(a),
                        IF b = << >> THEN b ELSE Tail(b), x \div BigBase)

BigAdd(a, b) == BigAddC(a, b, 0)

\* a * k + c for a digit k
RECURSIVE BigScale(_, _, _)
BigScale(a, k, c) ==
    IF a = << >> THEN ToBig(c)
    ELSE LET x == Head(a) * k + c
         IN  << x % BigBase >> \o BigScale(Tail(a), k, x \div BigBase)

RECURSIVE BigMul(_, _)
BigMul(a, b) ==
    IF b = << >> THEN << >>
    ELSE BigAdd(BigScale(a, Head(b), 0), << 0 >> \o BigMul(a, Tail(b)))

RECURSIVE BigLeDigits(_, _)
BigLeDigits(x, y) ==
    IF x = << >> THEN TRUE
    ELSE IF x[Len(x)] # y[Len(y)] THEN x[Len(x)] < y[Len(y)]
    ELSE BigLeDigits(SubSeq(x, 1, Len(x) - 1), SubSeq(y, 1, Len(y) - 1))

\* a <= b
BigLe(a, b) ==
    LET x == BigNorm(a)
        y == BigNorm(b)
    IN  IF Len(x) # Len(y) THEN Len(x) < Len(y) ELSE BigLeDigits(x, y)

\* line 145
NANOSECONDS_PER_SECOND == 1000000000
\* line 146
BITS15_MASK == 32767

\* v / NANOSECONDS_PER_SECOND: 10^9 = BigBase^3, the three lowest digits go
BigDivNanos(v) == SubSeq(v, 4, Len(v))

\* Err(EOVERFLOW)
Overflow == [ok |-> FALSE, ticks |-> 0]

(***************************************************************************)
(* nanos_to_ticks, lines 144-161.  Hertz and NanoSeconds hold a u32, so    *)
(* the product and the sum fit a u128 and checked_mul, checked_add and     *)
(* checked_div (by a non-zero constant) always return Some.                *)
(* `v & !BITS15_MASK == 0` holds exactly when v <= BITS15_MASK.            *)
(***************************************************************************)
\* mutant: the division truncates (no `+ NANOSECONDS_PER_SECOND / 2`)
nanos_to_ticks_Truncating(ticks_hz, duration) ==
    LET v == BigDivNanos(BigMul(ToBig(ticks_hz), ToBig(duration)))
    IN  IF BigLe(v, ToBig(BITS15_MASK))
        THEN [ok |-> TRUE, ticks |-> BigToInt(v)]
        ELSE Overflow

\* mutant: the value is masked to 15 bits instead of being rejected
nanos_to_ticks_Masking(ticks_hz, duration) ==
    LET mul == BigMul(ToBig(ticks_hz), ToBig(duration))
        add == BigAdd(mul, ToBig(NANOSECONDS_PER_SECOND \div 2))
        v == BigDivNanos(add)
    IN  [ok |-> TRUE, ticks |-> BigToInt(v) % (BITS15_MASK + 1)]

nanos_to_ticks(ticks_hz, duration) ==
    LET mul == BigMul(ToBig(ticks_hz), ToBig(duration))
        add == BigAdd(mul, ToBig(NANOSECONDS_PER_SECOND \div 2))
        v == BigDivNanos(add)
    IN  IF BigLe(v, ToBig(BITS15_MASK))
        THEN [ok |-> TRUE, ticks |-> BigToInt(v)]
        ELSE Overflow

\* counter clocks tried: 1 Hz, 1 MHz, 20 MHz (80 MHz APB / clock_divider 4),
\* 80 MHz, 1 GHz
ClockHz == {1, 1000000, 20000000, 80000000, 1000000000}

\* durations tried: around zero, around the rounding ties and around the
\* 15-bit limit of each clock, the LED timings, and one second
DurationBases ==
    {0, 24, 349, 499, 32766, 409592, 1638373, 32767498, 499999999, 1000000000}

NanoDurations == {b + k : b \in DurationBases, k \in 0 .. NanosSpan}

TicksIdle ==
    /\ tk_hz = 1
    /\ tk_durs = << 0, 0 >>
    /\ tk_res = << >>

TicksInit ==
    /\ tk_hz \in ClockHz
    /\ tk_durs \in {d \in NanoDurations \X NanoDurations : d[1] <= d[2]}
    /\ tk_res = << >>

\* one call of nanos_to_ticks, with the next of the two durations
TicksConvert ==
    /\ UNCHANGED << execVars, timerVars, rmtVars, itemVars, showVars, ledVars, rcVars >>
    /\ Len(tk_res) < 2
    /\ tk_res' = Append(tk_res, nanos_to_ticks(tk_hz, tk_durs[Len(tk_res) + 1]))
    /\ UNCHANGED << tk_hz, tk_durs >>

TicksNext == TicksConvert

(***************************************************************************)
(*                   driver/ws2811.rs : Ws2811::show                       *)
(***************************************************************************)
\* self.zero_item and self.one_item, as set by set_led_timings
zero_item == "zero_item"
one_item == "one_item"

\* Color values tried: no bit, the lowest bit, the highest of the 24 bits,
\* and bit 24 (outside the 24 colour bits) together with the lowest bit
Colors == {0, 1, 8388608, 16777217}

ColorGroups == [num_leds : 0 .. MaxLeds, color : Colors]

RECURSIVE GroupSeqs(_)
GroupSeqs(n) ==
    IF n = 0 THEN {<< >>}
    ELSE LET shorter == GroupSeqs(n - 1)
         IN  shorter \cup {Append(q, g) : q \in {p \in shorter : Len(p) = n - 1},
                                          g \in ColorGroups}

\* iter::repeat(val).take(n)
RECURSIVE Repeat(_, _)
Repeat(val, n) == IF n = 0 THEN << >> ELSE << val >> \o Repeat(val, n - 1)

\* line 127: flat_map(|g| iter::repeat(g.color.0).take(g.num_leds as usize))
RECURSIVE Pixels(_)
Pixels(groups) ==
    IF groups = << >> THEN << >>
    ELSE Repeat(Head(groups).color, Head(groups).num_leds) \o Pixels(Tail(groups))

\* lines 130-137: the k-th of the 24 steps, entered with `mask`
RECURSIVE MaskItems(_, _, _)
MaskItems(val, mask, k) ==
    IF k = 24 THEN << >>
    ELSE LET shifted == mask \div 2
         IN  << IF (val \div shifted) % 2 = 0 THEN zero_item ELSE one_item >>
             \o MaskItems(val, shifted, k + 1)

\* mutant: the mask starts at bit 0 and moves up after each test
RECURSIVE MaskItemsUp(_, _, _)
MaskItemsUp(val, mask, k) ==
    IF k = 24 THEN << >>
    ELSE << IF (val \div mask) % 2 = 0 THEN zero_item ELSE one_item >>
         \o MaskItemsUp(val, mask * 2, k + 1)

PixelItems_LsbFirst(val) == MaskItemsUp(val, 1, 0)

\* lines 128-138: let mut mask = 1 << 24; (0_u32..24).map(..)
PixelItems(val) == MaskItems(val, 2 ^ 24, 0)

RECURSIVE FlatMapPixelItems(_)
FlatMapPixelItems(pixels) ==
    IF pixels = << >> THEN << >>
    ELSE PixelItems(Head(pixels)) \o FlatMapPixelItems(Tail(pixels))

\* the iterator built by show, lines 126-138
Ws2811_show(groups) == FlatMapPixelItems(Pixels(groups))

ShowIdle ==
    /\ show_pc = "args"
    /\ show_groups = << >>
    /\ show_items = << >>

ShowInit ==
    /\ show_pc = "args"
    /\ show_groups \in GroupSeqs(MaxGroups)
    /\ show_items = << >>

Show ==
    /\ UNCHANGED << execVars, timerVars, rmtVars, itemVars, ticksVars, ledVars, rcVars >>
    /\ show_pc = "args"
    /\ show_items' = Ws2811_show(show_groups)
    /\ show_pc' = "shown"
    /\ UNCHANGED show_groups

ShowNext == Show

(***************************************************************************)
(*      light.rs : the animation task run by the executor (start, run)     *)
(*                                                                         *)
(* start() spawns one thread that calls EXECUTOR.run::<2> with the single  *)
(* task `run`: loop { show; timer.after(16000).await }.  The task is the   *)
(* only poller of the timer future, the EspTimer callback the only holder  *)
(* of a waker clone.                                                       *)
(***************************************************************************)
\* light.rs line 52: EXECUTOR.run::<2>(&mut [&mut task]), once
LightStart ==
    /\ run = 0
    /\ RunStart(1, 2)

\* light.rs lines 73-81, inside a poll of the task: the next iteration shows
\* the colour and calls timer.after
LightShowAfter(d) ==
    /\ Running
    /\ pc = "poll"
    /\ TimerAfter(d)

(***************************************************************************)
(* light.rs line 82, `sleep.await`, inside a poll of the task: the poll_fn *)
(* of timer.rs lines 55-70 is polled with the waker of the executor.       *)
(* Pending ends the poll of the task; Ready lets the task go on with its   *)
(* loop.  `self.waker = Some(clone)` and `self.waker = None` create and    *)
(* drop the clone the callback uses.                                       *)
(***************************************************************************)
LightAwait ==
    /\ Running
    /\ TimerRunning
    /\ UNCHANGED << rmtVars, pureVars >>
    /\ pc = "poll"
    /\ fut \in {"new", "pending"}
    /\ task_woken' = FALSE
    /\ IF ~timer_waker
       THEN /\ timer_waker' = TRUE
            /\ ctx_waker' = [ctx_waker EXCEPT !["timer"] = << run, cur >>]
            /\ IF alarm_armed
               THEN /\ timer_panicked' = TRUE
                    /\ panicked' = "abort"
                    /\ UNCHANGED << alarm_armed, alarm_left, alarm_owner,
                                    fut, fut_arms, fut_pendings, pc, poll_res >>
               ELSE /\ alarm_armed' = TRUE
                    /\ alarm_left' = fut_timeout
                    /\ alarm_owner' = waits
                    /\ fut_arms' = fut_arms + 1
                    /\ fut' = "pending"
                    /\ fut_pendings' = fut_pendings + 1
                    /\ poll_res' = "pending"
                    /\ pc' = "polled"
                    /\ UNCHANGED << timer_panicked, panicked >>
       ELSE /\ timer_waker' = FALSE
            /\ ctx_waker' = [ctx_waker EXCEPT !["timer"] = NoWaker]
            /\ fut' = "ready"
            /\ UNCHANGED << alarm_armed, alarm_left, alarm_owner, fut_arms,
                            fut_pendings, timer_panicked, panicked, pc,
                            poll_res >>
    /\ is_queued' = Reclaim(is_queued, ctx_waker', run)
    /\ UNCHANGED << timer_handle, fut_timeout, waits, fut_fired >>
    /\ UNCHANGED << enqueue_task, lock, run, ntasks, qn, queue, notified,
                    pending_futures, cur, completed, ctx_pc, stale_discarded >>

\* mutant of LightCallback: the callback returns without waking the waker
LightCallback_NoWake ==
    /\ Running
    /\ TimerRunning
    /\ UNCHANGED << rmtVars, pureVars >>
    /\ alarm_armed
    /\ alarm_left = 0
    /\ ctx_pc["timer"] = "idle"
    /\ alarm_armed' = FALSE
    /\ task_woken' = task_woken
    /\ fut_fired' = (fut_fired \/ alarm_owner = waits)
    /\ UNCHANGED << timer_handle, timer_waker, alarm_left, alarm_owner, fut,
                    fut_timeout, waits, fut_arms, fut_pendings,
                    timer_panicked >>
    /\ UNCHANGED execVars

(***************************************************************************)
(* EspTimer::handle_callback in the task's timer, timer.rs lines 73-83:    *)
(* the alarm fires and `waker.wake_by_ref()` enters                        *)
(* TaskHandleData::enqueue_task with its compare_exchange; the lock and    *)
(* the call of the closure follow as WakeLock and WakeEnqueue.             *)
(***************************************************************************)
LightCallback ==
    /\ Running
    /\ TimerRunning
    /\ UNCHANGED << rmtVars, pureVars >>
    /\ alarm_armed
    /\ alarm_left = 0
    /\ ctx_pc["timer"] = "idle"
    /\ alarm_armed' = FALSE
    /\ task_woken' = (task_woken \/ timer_waker)
    /\ fut_fired' = (fut_fired \/ alarm_owner = waits)
    /\ UNCHANGED << timer_handle, timer_waker, alarm_left, alarm_owner, fut,
                    fut_timeout, waits, fut_arms, fut_pendings,
                    timer_panicked >>
    /\ IF timer_waker /\ ~is_queued[ctx_waker["timer"][1]][ctx_waker["timer"][2]]
       THEN /\ is_queued' = [is_queued EXCEPT
                   ![ctx_waker["timer"][1]][ctx_waker["timer"][2]] = TRUE]
            /\ ctx_pc' = [ctx_pc EXCEPT !["timer"] = "lock"]
       ELSE UNCHANGED << is_queued, ctx_pc >>
    /\ UNCHANGED << enqueue_task, lock, run, pc, ntasks, qn, queue, notified,
                    pending_futures, cur, poll_res, completed,
                    panicked, ctx_waker, stale_discarded >>

LightNext ==
    \/ LightStart
    \/ RunRegister
    \/ RunLoop
    \/ RunWait
    \/ RunDequeue
    \/ RunClear
    \/ \E d \in 1 .. MaxTimeout : LightShowAfter(d)
    \/ LightAwait
    \/ RunPolled
    \/ TimerTick
    \/ LightCallback
    \/ WakeLock("timer")
    \/ WakeEnqueue("timer")

(***************************************************************************)
(*             driver/ws2811.rs : Ws2811::set_led_timings                  *)
(***************************************************************************)
\* ws2811.rs lines 59-64: RmtItem::new of the driver, the same packing
Ws2811_RmtItem_new(duration0, level0, duration1, level1) ==
    LET half_period0 == BitOr(AsU32(duration0), Shl(BoolAsU32(level0), 15))
        half_period1 == BitOr(AsU32(duration1), Shl(BoolAsU32(level1), 15))
    IN  BitOr(half_period0, Shl(half_period1, 16))

\* lines 40-52, durations in ns
NEOPIXEL == [t0h |-> 350, t0l |-> 800, t1h |-> 750, t1l |-> 600]
WS2811_HS == [t0h |-> 300, t0l |-> 1000, t1h |-> 700, t1l |-> 600]

\* a duration no counter clock tried converts to 15 bits (2 ms)
TooLong == 2000000

\* the timings tried: the presets, and NEOPIXEL with one duration too long
LedTimings ==
    {NEOPIXEL, WS2811_HS}
    \cup {[NEOPIXEL EXCEPT ![f] = TooLong] : f \in {"t0h", "t0l", "t1h", "t1l"}}

\* counter_clock(): 80 MHz APB / clock_divider 4 (line 80), or undivided
LedClocks == {20000000, 80000000}

\* Ws2811::new, lines 89-93, before its call of set_led_timings
LedInit ==
    /\ led_zero = {}
    /\ led_one = {}
    /\ led_call = << >>
    /\ led_before = << >>
    /\ led_res = "none"

(***************************************************************************)
(* set_led_timings, lines 99-118.  Each `?` returns the error at once:     *)
(* zero_item is assigned when t0h and t0l convert, one_item when, after    *)
(* that, t1h and t1l convert.                                              *)
(***************************************************************************)
set_led_timings(clock_hz, timings) ==
    LET r0h == nanos_to_ticks(clock_hz, timings.t0h)
        r0l == nanos_to_ticks(clock_hz, timings.t0l)
        r1h == nanos_to_ticks(clock_hz, timings.t1h)
        r1l == nanos_to_ticks(clock_hz, timings.t1l)
    IN  IF ~r0h.ok \/ ~r0l.ok
        THEN /\ led_res' = "overflow"
             /\ UNCHANGED << led_zero, led_one >>
        ELSE /\ led_zero' =
                    Ws2811_RmtItem_new(r0h.ticks, TRUE, r0l.ticks, FALSE)
             /\ IF ~r1h.ok \/ ~r1l.ok
                THEN /\ led_res' = "overflow"
                     /\ UNCHANGED led_one
                ELSE /\ led_one' =
                            Ws2811_RmtItem_new(r1h.ticks, TRUE, r1l.ticks, FALSE)
                     /\ led_res' = "ok"

SetLedTimings(clock_hz, timings) ==
    /\ UNCHANGED << execVars, timerVars, rmtVars, itemVars, ticksVars, showVars, rcVars >>
    /\ led_call' = << clock_hz, timings >>
    /\ led_before' = << led_zero, led_one >>
    /\ set_led_timings(clock_hz, timings)

LedNext == \E clock_hz \in LedClocks : \E timings \in LedTimings :
               SetLedTimings(clock_hz, timings)

(***************************************************************************)
(*        utils/executor.rs : TaskHandle and the waker vtable              *)
(*                                                                         *)
(* The Arc<TaskHandleData> of every task of every run, with its strong     *)
(* count.  Owners are the TaskHandle in task_handles of the active run and *)
(* the wakers made by waker_clone.                                         *)
(***************************************************************************)
NoTask == -1

RcInit ==
    /\ rc_run = 0
    /\ rc_active = FALSE
    /\ rc_lent = NoTask
    /\ rc_strong = [r \in RunIds |-> [t \in TaskIds |-> 0]]
    /\ rc_clones = [r \in RunIds |-> [t \in TaskIds |-> 0]]
    /\ rc_destroyed = [r \in RunIds |-> [t \in TaskIds |-> 0]]
    /\ rc_ub = FALSE
    /\ rc_last = "none"

RECURSIVE SumOver(_, _)
SumOver(f, dom) ==
    IF dom = {} THEN 0
    ELSE LET x == CHOOSE y \in dom : TRUE
         IN  f[x] + SumOver(f, dom \ {x})

LiveClones ==
    SumOver([p \in RunIds \X TaskIds |-> rc_clones[p[1]][p[2]]],
            RunIds \X TaskIds)

\* Arc::increment_strong_count
ArcIncrement(strong, r, t) == [strong EXCEPT ![r][t] = @ + 1]

\* drop(Arc): the count goes down; at 0 the data is destroyed
ArcDrop(strong, r, t) == [strong EXCEPT ![r][t] = @ - 1]
ArcDestroyed(destroyed, strong, r, t) ==
    [destroyed EXCEPT ![r][t] = IF strong[r][t] = 1 THEN @ + 1 ELSE @]

\* Executor::run lines 52-59: TaskHandle::new (Arc::new) for every task
RcRunStart ==
    /\ UNCHANGED << execVars, timerVars, rmtVars, itemVars, ticksVars,
                    showVars, ledVars >>
    /\ ~rc_active
    /\ rc_run < MaxRuns
    /\ rc_run' = rc_run + 1
    /\ rc_active' = TRUE
    /\ rc_strong' = [rc_strong EXCEPT ![rc_run + 1] = [t \in TaskIds |-> 1]]
    /\ UNCHANGED << rc_lent, rc_clones, rc_destroyed, rc_ub, rc_last >>

\* lines 97-100, TaskHandle::as_waker (lines 189-197): a Waker on the same
\* pointer inside ManuallyDrop; the count is not touched
RcAsWaker(t) ==
    /\ UNCHANGED << execVars, timerVars, rmtVars, itemVars, ticksVars,
                    showVars, ledVars >>
    /\ rc_active
    /\ rc_lent = NoTask
    /\ rc_lent' = t
    /\ UNCHANGED << rc_run, rc_active, rc_strong, rc_clones, rc_destroyed,
                    rc_ub, rc_last >>

\* the poll is over and the AsWaker goes out of scope: ManuallyDrop runs no
\* destructor
RcPollEnd ==
    /\ UNCHANGED << execVars, timerVars, rmtVars, itemVars, ticksVars,
                    showVars, ledVars >>
    /\ rc_lent # NoTask
    /\ rc_lent' = NoTask
    /\ UNCHANGED << rc_run, rc_active, rc_strong, rc_clones, rc_destroyed,
                    rc_ub, rc_last >>

\* a waker of handle (r, t) is at hand: the lent one, or a clone
WakerAtHand(r, t) ==
    \/ rc_active /\ r = rc_run /\ rc_lent = t
    \/ rc_clones[r][t] > 0

\* waker_clone, lines 206-210
RcClone(r, t) ==
    /\ UNCHANGED << execVars, timerVars, rmtVars, itemVars, ticksVars,
                    showVars, ledVars >>
    /\ WakerAtHand(r, t)
    /\ LiveClones < MaxClones
    /\ rc_ub' = (rc_ub \/ rc_strong[r][t] <= 0)
    /\ rc_strong' = ArcIncrement(rc_strong, r, t)
    /\ rc_clones' = [rc_clones EXCEPT ![r][t] = @ + 1]
    /\ rc_last' = "clone"
    /\ UNCHANGED << rc_run, rc_active, rc_lent, rc_destroyed >>

\* waker_wake_by_ref, lines 215-218: the data is borrowed
RcWakeByRef(r, t) ==
    /\ UNCHANGED << execVars, timerVars, rmtVars, itemVars, ticksVars,
                    showVars, ledVars >>
    /\ WakerAtHand(r, t)
    /\ rc_ub' = (rc_ub \/ rc_strong[r][t] <= 0)
    /\ rc_last' = "wake_by_ref"
    /\ UNCHANGED << rc_run, rc_active, rc_lent, rc_strong, rc_clones,
                    rc_destroyed >>

\* mutant of RcWake: the waker is consumed without releasing its reference
RcWake_NoRelease(r, t) ==
    /\ UNCHANGED << execVars, timerVars, rmtVars, itemVars, ticksVars,
                    showVars, ledVars >>
    /\ rc_clones[r][t] > 0
    /\ rc_ub' = (rc_ub \/ rc_strong[r][t] <= 0)
    /\ rc_clones' = [rc_clones EXCEPT ![r][t] = @ - 1]
    /\ rc_last' = "wake"
    /\ UNCHANGED << rc_run, rc_active, rc_lent, rc_strong, rc_destroyed >>

\* waker_wake, lines 211-214: Waker::wake(self) consumes a cloned waker;
\* Arc::from_raw takes its reference over and drops it after enqueue_task
RcWake(r, t) ==
    /\ UNCHANGED << execVars, timerVars, rmtVars, itemVars, ticksVars,
                    showVars, ledVars >>
    /\ rc_clones[r][t] > 0
    /\ rc_ub' = (rc_ub \/ rc_strong[r][t] <= 0)
    /\ rc_clones' = [rc_clones EXCEPT ![r][t] = @ - 1]
    /\ rc_strong' = ArcDrop(rc_strong, r, t)
    /\ rc_destroyed' = ArcDestroyed(rc_destroyed, rc_strong, r, t)
    /\ rc_last' = "wake"
    /\ UNCHANGED << rc_run, rc_active, rc_lent >>

\* waker_drop, lines 219-221: a cloned waker is dropped
RcDrop(r, t) ==
    /\ UNCHANGED << execVars, timerVars, rmtVars, itemVars, ticksVars,
                    showVars, ledVars >>
    /\ rc_clones[r][t] > 0
    /\ rc_ub' = (rc_ub \/ rc_strong[r][t] <= 0)
    /\ rc_clones' = [rc_clones EXCEPT ![r][t] = @ - 1]
    /\ rc_strong' = ArcDrop(rc_strong, r, t)
    /\ rc_destroyed' = ArcDestroyed(rc_destroyed, rc_strong, r, t)
    /\ rc_last' = "drop"
    /\ UNCHANGED << rc_run, rc_active, rc_lent >>

\* Executor::run returns, line 114: task_handles is dropped, every handle of
\* the run gives up its reference
RcRunReturn ==
    /\ UNCHANGED << execVars, timerVars, rmtVars, itemVars, ticksVars,
                    showVars, ledVars >>
    /\ rc_active
    /\ rc_lent = NoTask
    /\ rc_active' = FALSE
    /\ rc_strong' = [rc_strong EXCEPT ![rc_run] = [t \in TaskIds |-> @[t] - 1]]
    /\ rc_destroyed' = [rc_destroyed EXCEPT ![rc_run] =
           [t \in TaskIds |-> IF rc_strong[rc_run][t] = 1 THEN @[t] + 1 ELSE @[t]]]
    /\ UNCHANGED << rc_run, rc_lent, rc_clones, rc_ub, rc_last >>

RcNext ==
    \/ RcRunStart
    \/ \E t \in TaskIds : RcAsWaker(t)
    \/ RcPollEnd
    \/ \E r \in RunIds : \E t \in TaskIds : RcClone(r, t)
    \/ \E r \in RunIds : \E t \in TaskIds : RcWakeByRef(r, t)
    \/ \E r \in RunIds : \E t \in TaskIds : RcWake(r, t)
    \/ \E r \in RunIds : \E t \in TaskIds : RcDrop(r, t)
    \/ RcRunReturn

Init ==
    /\ ExecInit /\ TimerInit /\ RmtInit /\ LedInit /\ RcInit
    /\ ItemIdle /\ TicksIdle /\ ShowIdle

Next ==
    \/ \E n \in 1 .. MaxTasks : \E cn \in n .. (MaxTasks + 1) : RunStart(n, cn)
    \/ RunRegister
    \/ RunLoop
    \/ RunWait
    \/ RunDequeue
    \/ RunClear
    \/ \E res \in {"pending", "ready", "panic"} : \E c \in Ctxs \cup {"none"} :
           \E sw \in BOOLEAN : RunPoll(res, c, sw)
    \/ RunSelfEnqueue
    \/ RunPolled
    \/ RunTeardown
    \/ \E c \in Ctxs : WakeCas(c)
    \/ \E c \in Ctxs : WakeLock(c)
    \/ \E c \in Ctxs : WakeEnqueue(c)
    \/ \E c \in Ctxs : WakerDrop(c)

Spec == Init /\ [][Next]_vars

(***************************************************************************)
(* The thread inside Executor::run keeps running (FreeRTOS schedules it    *)
(* whenever it is not blocked in wait_notification), a poll returns, and a *)
(* context that entered TaskHandleData::enqueue_task gets the spin lock    *)
(* and leaves.  When a waker is invoked, and when run is called, is the    *)
(* environment's choice.                                                   *)
(***************************************************************************)
FairSpec ==
    /\ Spec
    /\ WF_vars(RunRegister)
    /\ WF_vars(RunLoop)
    /\ WF_vars(RunWait)
    /\ WF_vars(RunDequeue)
    /\ WF_vars(RunClear)
    /\ WF_vars(\E res \in {"pending", "ready", "panic"} :
                   \E c \in Ctxs \cup {"none"} : \E sw \in BOOLEAN :
                       RunPoll(res, c, sw))
    /\ WF_vars(RunSelfEnqueue)
    /\ WF_vars(RunPolled)
    /\ WF_vars(RunTeardown)
    /\ \A c \in Ctxs : WF_vars(WakeLock(c)) /\ WF_vars(WakeEnqueue(c))

TimerSpec == Init /\ [][TimerNext]_vars

RcSpec == Init /\ [][RcNext]_vars

LedSpec == Init /\ [][LedNext]_vars

LightSpec == Init /\ [][LightNext]_vars

(***************************************************************************)
(* The spawned thread keeps running, the esp_timer counts down and fires,  *)
(* and the callback runs to its end.                                       *)
(***************************************************************************)
LightFairSpec ==
    /\ LightSpec
    /\ WF_vars(LightStart)
    /\ WF_vars(RunRegister)
    /\ WF_vars(RunLoop)
    /\ WF_vars(RunWait)
    /\ WF_vars(RunDequeue)
    /\ WF_vars(RunClear)
    /\ WF_vars(\E d \in 1 .. MaxTimeout : LightShowAfter(d))
    /\ WF_vars(LightAwait)
    /\ WF_vars(RunPolled)
    /\ WF_vars(TimerTick)
    /\ WF_vars(LightCallback)
    /\ WF_vars(WakeLock("timer"))
    /\ WF_vars(WakeEnqueue("timer"))

RmtSpec == Init /\ [][RmtNext]_vars

ItemStart ==
    /\ ExecInit /\ TimerInit /\ RmtInit /\ LedInit /\ RcInit
    /\ ItemInit /\ TicksIdle /\ ShowIdle

ItemSpec == ItemStart /\ [][ItemNext]_vars

TicksStart ==
    /\ ExecInit /\ TimerInit /\ RmtInit /\ LedInit /\ RcInit
    /\ ItemIdle /\ TicksInit /\ ShowIdle

TicksSpec == TicksStart /\ [][TicksNext]_vars

ShowStart ==
    /\ ExecInit /\ TimerInit /\ RmtInit /\ LedInit /\ RcInit
    /\ ItemIdle /\ TicksIdle /\ ShowInit

ShowSpec == ShowStart /\ [][ShowNext]_vars

(***************************************************************************)
(*                      Properties of the executor                         *)
(***************************************************************************)
AllComplete == \A t \in 0 .. (ntasks - 1) : completed[t]

\* C1: in every state of a run the ready queue holds at most one pending
\* entry per task id (wake collapsing: one enqueue per task between polls).
C1_OneEntryPerTask ==
    \A t \in TaskIds : Entries(queue, t) <= 1

\* C2: every poll step of Executor::run polls a task that has not yet
\* reported completion (a completed task is never polled again).
C2_NoPollAfterCompletion ==
    [][(pc = "poll" /\ pc' # "poll") => ~completed[cur]]_vars

\* C3: when run has left its loop (and is about to deregister and return)
\* every supplied task has reported completion.
C3_ReturnsOnlyWhenAllComplete ==
    pc = "teardown" => AllComplete

\* C4: run terminates once every task has completed: with all tasks
\* complete the thread is never (back) in wait_notification, and no panic
\* has ended the run instead of a return.
C4_ExitsWhenAllComplete ==
    (RunActive /\ AllComplete) => (pc # "wait" /\ Running)

\* C5: a wake that reaches ExecutorState::enqueue_task while no run is
\* active finds the callback deregistered: the closure is not invoked, the
\* ready queue is not touched, no thread is notified, nothing panics.
C5_StaleWakeDiscarded ==
    [][(~RunActive /\ \E c \in Ctxs : ctx_pc[c] = "locked" /\ ctx_pc'[c] = "idle")
           => /\ enqueue_task = 0
              /\ queue' = queue
              /\ notified' = notified
              /\ panicked' = panicked]_vars

\* C5 witness: a run has returned, no run is active, and a waker obtained
\* during a run was invoked and its wake discarded since that return.
C5_Witness ==
    /\ run >= 1
    /\ ~RunActive
    /\ stale_discarded
    /\ \E c \in Ctxs : ctx_waker[c] # NoWaker /\ ctx_waker[c][1] <= run

\* C6: no enqueue, neither of the initial bulk enqueue (also with N tasks
\* for run::<N>) nor through a waker, ever finds the ready queue full.
C6_QueueNeverFull ==
    panicked # "queue_full"

(***************************************************************************)
(*                       Properties of the timer                           *)
(***************************************************************************)
\* C7: every future of after() arms the alarm exactly once on its first
\* poll and suspends once (Pending) with the waker captured; resolved, it
\* has cleared the waker, so that the next after() arms again: no wait
\* finds the alarm still running when it arms.
C7_SingleShotSequence ==
    /\ ~timer_panicked
    /\ fut = "pending" => (timer_waker /\ fut_arms = 1 /\ fut_pendings = 1)
    /\ fut = "ready" => (~timer_waker /\ fut_arms = 1 /\ fut_pendings = 1)

\* C8: a wait never resolves before the callback of the alarm it started
\* has fired.
C8_NoResolveBeforeCallback ==
    fut = "ready" => fut_fired

(***************************************************************************)
(*                   Properties of the RMT translation                     *)
(***************************************************************************)
IsPrefix(p, q) ==
    /\ Len(p) <= Len(q)
    /\ \A k \in 1 .. Len(p) : p[k] = q[k]

\* C9: when the transfer is over, by exhaustion or by an abort, the boxed
\* producer has been released exactly once.
C9_ReleasedExactlyOnce ==
    rmt_phase \in {"done", "aborted"} => (rmt_released = 1 /\ ~rmt_boxed)

\* C10: an invocation writes at most wanted_num items, in producer order;
\* it writes fewer than wanted_num exactly when the producer reported
\* exhaustion in that invocation, and exactly then reports the source as
\* fully translated; all chunks together are the producer's sequence.
C10_ChunkedPull ==
    /\ rmt_item_num <= rmt_wanted
    /\ (rmt_item_num < rmt_wanted) <=> rmt_exhausted
    /\ (rmt_translated = SrcSize) <=> rmt_exhausted
    /\ rmt_translated \in {0, SrcSize}
    /\ IsPrefix(rmt_out, rmt_src)
    /\ rmt_out \o rmt_iter = rmt_src
    /\ rmt_phase = "done" => rmt_out = rmt_src

\* C10 witness: a producer whose length is the chunk size has been pulled
\* to its end: a full chunk, then an invocation that wrote no item.
C10_Witness ==
    /\ rmt_phase = "done"
    /\ Len(rmt_src) = MaxWanted
    /\ rmt_wanted = MaxWanted
    /\ rmt_item_num = 0
    /\ rmt_out = rmt_src

(***************************************************************************)
(*                       Properties of RmtItem                             *)
(***************************************************************************)
\* C11: codec round-trip: for duration0 <= 0x7FFF and duration1 <= 0x7FFF and
\* any levels, the four accessors return the arguments RmtItem::new was
\* given.
C11_RoundTrip ==
    (/\ item_pc = "decoded"
     /\ item_args[1] <= 32767
     /\ item_args[3] <= 32767) => item_decoded = item_args

(***************************************************************************)
(*                    Properties of nanos_to_ticks                         *)
(***************************************************************************)
\* t is an integer nearest to ticks_hz * duration / 10^9:
\* |t * 10^9 - ticks_hz * duration| <= 10^9 / 2
IsNearest(t, ticks_hz, duration) ==
    LET exact == BigMul(ToBig(ticks_hz), ToBig(duration))
        scaled == BigMul(ToBig(t), ToBig(NANOSECONDS_PER_SECOND))
        half == ToBig(NANOSECONDS_PER_SECOND \div 2)
    IN  /\ BigLe(scaled, BigAdd(exact, half))
        /\ BigLe(exact, BigAdd(scaled, half))

\* ticks_hz * duration / 10^9, rounded half up, is above 0x7FFF
RoundsAbove15Bits(ticks_hz, duration) ==
    BigLe(BigMul(ToBig(32768), ToBig(NANOSECONDS_PER_SECOND)),
          BigAdd(BigMul(ToBig(ticks_hz), ToBig(duration)),
                 ToBig(NANOSECONDS_PER_SECOND \div 2)))

\* C12: nanos_to_ticks returns duration * clock_hz / 1e9 rounded to the
\* nearest integer when that is at most 0x7FFF and fails with Overflow
\* when it is above 0x7FFF; no truncated or clamped count is returned.
C12_RoundedOrOverflow ==
    \A i \in 1 .. Len(tk_res) :
        IF tk_res[i].ok
        THEN /\ tk_res[i].ticks <= 32767
             /\ IsNearest(tk_res[i].ticks, tk_hz, tk_durs[i])
             /\ ~RoundsAbove15Bits(tk_hz, tk_durs[i])
        ELSE RoundsAbove15Bits(tk_hz, tk_durs[i])

\* C12 witness: at 1 GHz, 32767 ns convert to 32767 ticks and one second
\* fails with Overflow
C12_Witness ==
    /\ tk_hz = 1000000000
    /\ tk_durs = << 32767, 1000000000 >>
    /\ tk_res = << [ok |-> TRUE, ticks |-> 32767], Overflow >>

\* C13: for a fixed clock, d1 <= d2: if both conversions succeed then
\* ticks(d1) <= ticks(d2), and if d1 overflows then d2 overflows.
C13_Monotonic ==
    Len(tk_res) = 2 =>
        /\ (tk_res[1].ok /\ tk_res[2].ok) => tk_res[1].ticks <= tk_res[2].ticks
        /\ ~tk_res[1].ok => ~tk_res[2].ok

\* C13 witness: both orders of outcome occur: a pair d1 < d2 at 20 MHz that
\* converts to 32767 ticks and then overflows
C13_Witness ==
    /\ tk_hz = 20000000
    /\ Len(tk_res) = 2
    /\ tk_durs[1] < tk_durs[2]
    /\ tk_res[1] = [ok |-> TRUE, ticks |-> 32767]
    /\ ~tk_res[2].ok

(***************************************************************************)
(*                     Properties of Ws2811::show                          *)
(***************************************************************************)
RECURSIVE TotalLeds(_)
TotalLeds(groups) ==
    IF groups = << >> THEN 0
    ELSE Head(groups).num_leds + TotalLeds(Tail(groups))

\* colour of pixel p (from 0) of the strip described by groups
RECURSIVE PixelColor(_, _)
PixelColor(groups, p) ==
    IF p < Head(groups).num_leds THEN Head(groups).color
    ELSE PixelColor(Tail(groups), p - Head(groups).num_leds)

\* C14: show yields exactly 24 * (sum of run lengths) items, pixel by pixel
\* in group order, each pixel as its low 24 colour bits, most significant
\* first, one_item for a set bit and zero_item for a clear bit.
C14_Expansion ==
    show_pc = "shown" =>
        /\ Len(show_items) = 24 * TotalLeds(show_groups)
        /\ \A p \in 0 .. (TotalLeds(show_groups) - 1) : \A k \in 0 .. 23 :
               show_items[24 * p + k + 1] =
                   IF (PixelColor(show_groups, p) \div (2 ^ (23 - k))) % 2 = 1
                   THEN one_item ELSE zero_item

\* C14 witness: run length 3 with colour 0x000001 gave 72 items, only the
\* last item of each pixel being one_item
C14_Witness ==
    /\ show_pc = "shown"
    /\ show_groups = << [num_leds |-> 3, color |-> 1] >>
    /\ Len(show_items) = 72
    /\ \A i \in 1 .. 72 : (show_items[i] = one_item) <=> (i % 24 = 0)

(***************************************************************************)
(*               Properties of the executor, continued                     *)
(***************************************************************************)
\* C15: every task given to run is polled at least once after the start of
\* the run, no waker having been invoked: from the entry of run (all ids
\* enqueued) each task of the run is eventually polled.
C15_InitialPoll ==
    \A t \in TaskIds :
        (pc = "register" /\ t < ntasks) ~> (pc = "poll" /\ cur = t)

\* C16: the closure is registered only inside one run and cleared before
\* run returns; registration, deregistration and every invocation happen
\* under the lock of Executor.state: none of them overlaps the invocation of
\* another context, and no invocation happens when the closure is not the
\* registered one of the active run.
C16_LockExclusion ==
    [][/\ enqueue_task' # enqueue_task => \A c \in Ctxs : ctx_pc[c] # "locked"
       /\ (pc = "self_enqueue" /\ pc' # "self_enqueue") =>
              \A c \in Ctxs : ctx_pc[c] # "locked"
       /\ \A c \in Ctxs : ctx_pc'[c] = "locked" => lock' = c
       /\ \A c \in Ctxs :
              (ctx_pc[c] = "locked" /\ ctx_pc'[c] = "idle" /\ queue' # queue) =>
                  (RunActive /\ enqueue_task = run)
       /\ (pc = "self_enqueue" /\ queue' # queue) => enqueue_task = run
       /\ pc' = "idle" => enqueue_task' = 0
       /\ enqueue_task' # 0 => (pc' # "idle" /\ enqueue_task' = run')
      ]_vars

\* C16 witness: a context is inside the invocation of the registered closure,
\* holding the lock, while run has left its loop and is about to deregister
C16_Witness ==
    /\ pc = "teardown"
    /\ enqueue_task = run
    /\ \E c \in Ctxs : ctx_pc[c] = "locked" /\ lock = c

\* C17: whenever a task id is in the ready queue, the is_queued flag of its
\* handle is set, in every state from the entry of run on.
C17_QueuedImpliesFlag ==
    RunActive =>
        \A t \in TaskIds : Entries(queue, t) >= 1 => is_queued[run][t]

\* C18: no lost wake-up: a task whose is_queued flag was set by a wake while
\* run is active is polled afterwards, and run is never blocked in
\* wait_notification, without a pending notification, while the queue is
\* non-empty.
C18_NoLostWakeup ==
    /\ \A t \in TaskIds :
           (RunActive /\ t < ntasks /\ is_queued[run][t])
               ~> (pc = "poll" /\ cur = t)
    /\ [](pc = "wait" /\ queue # << >> => notified)

\* C19: the count kept by run equals the number of tasks that have not
\* reported completion, and never goes below zero.
C19_PendingCount ==
    pc \in {"loop", "wait", "drain", "clear", "poll", "teardown"} =>
        /\ pending_futures >= 0
        /\ pending_futures =
               Cardinality({t \in 0 .. (ntasks - 1) : ~completed[t]})

\* C20: FIFO: on entry the queue holds the ids 0, 1, ... in this order, an
\* enqueue appends at the tail, a dequeue takes the head, and the task
\* polled is the one dequeued.
C20_Fifo ==
    [][/\ (pc = "idle" /\ pc' # "idle") =>
              /\ \A i \in 1 .. Len(queue') : queue'[i] = i - 1
              /\ panicked' = "none" => Len(queue') = ntasks'
       /\ (pc # "idle" /\ pc' # "idle" /\ Len(queue') > Len(queue)) =>
              \E t \in TaskIds : queue' = Append(queue, t)
       /\ (pc = "drain" /\ pc' = "clear") =>
              (cur' = Head(queue) /\ queue' = Tail(queue))
       /\ (pc \in {"clear", "poll"}) => cur' = cur
      ]_vars

\* C20 witness: task 1, enqueued before task 0 woke itself, has been
\* dequeued ahead of the second entry of task 0
C20_Witness ==
    /\ pc = "clear"
    /\ cur = 1
    /\ queue = << 0 >>
    /\ is_queued[run][0]

(***************************************************************************)
(*                   Properties of the animation task                      *)
(***************************************************************************)
\* C21: in the animation task at most one timer wait is outstanding: the
\* alarm is never started while a started alarm has not fired (no abort of
\* esp_nofail!), the callback of every started alarm finds a captured waker,
\* every wait resolves and the loop goes on to its next timer.after.
C21_OneOutstandingWait ==
    /\ [](~timer_panicked /\ Running)
    /\ [](alarm_armed => (fut = "pending" /\ alarm_owner = waits /\ fut_arms = 1))
    /\ [][(alarm_armed /\ ~alarm_armed') => timer_waker]_vars
    /\ (fut = "pending") ~> (fut = "ready" /\ fut_fired)
    /\ (fut = "ready" /\ waits < MaxWaits) ~> (fut = "new")

\* C21 witness: the second wait of the loop has been resolved by its alarm
C21_Witness ==
    /\ pc = "poll"
    /\ waits >= 2
    /\ fut = "ready"
    /\ fut_fired
    /\ ~alarm_armed

(***************************************************************************)
(*                 Properties of Ws2811::set_led_timings                   *)
(***************************************************************************)
\* the ticks of a duration of the latest call, at the clock of that call
CallTicks(field) == nanos_to_ticks(led_call[1], led_call[2][field]).ticks

\* C22: after a successful set_led_timings the 'one' item encodes the
\* logic-1 durations and the 'zero' item the logic-0 durations, t0h/t0l being
\* documented (LedTimings, lines 30-33) as the logic-1 and t1h/t1l (lines
\* 34-37) as the logic-0 durations.
C22_ItemsAsDocumented ==
    led_res = "ok" =>
        /\ led_one = Ws2811_RmtItem_new(CallTicks("t0h"), TRUE,
                                        CallTicks("t0l"), FALSE)
        /\ led_zero = Ws2811_RmtItem_new(CallTicks("t1h"), TRUE,
                                         CallTicks("t1l"), FALSE)

\* C24: a set_led_timings that fails with Overflow leaves zero_item and
\* one_item as they were before the call.
C24_NoPartialUpdate ==
    led_res = "overflow" => << led_zero, led_one >> = led_before

(***************************************************************************)
(*                    Wakers of an earlier run                             *)
(***************************************************************************)
\* C25: a waker created during one run and invoked while a later run of the
\* same Executor is active enqueues nothing into the queue of the later run
\* and does not notify its thread (and panics nothing).
C25_StaleWakerDiscarded ==
    [][\A c \in Ctxs :
           (/\ RunActive
            /\ ctx_pc[c] = "locked"
            /\ ctx_pc'[c] = "idle"
            /\ ctx_waker[c][1] < run) =>
               /\ queue' = queue
               /\ notified' = notified
               /\ panicked' = panicked
      ]_vars

(***************************************************************************)
(*                 Properties of the waker reference count                 *)
(***************************************************************************)
\* C23: the strong count of every task handle is one for the handle held by
\* the active run plus the number of live cloned wakers; the waker lent to a
\* poll counts nothing; the data is destroyed once, exactly when the count
\* reaches zero, and no vtable function is given destroyed data.
C23_StrongCount ==
    /\ ~rc_ub
    /\ \A r \in RunIds : \A t \in TaskIds :
           LET held == IF rc_active /\ r = rc_run THEN 1 ELSE 0
           IN  IF r <= rc_run
               THEN /\ rc_strong[r][t] = held + rc_clones[r][t]
                    /\ rc_destroyed[r][t] = IF held + rc_clones[r][t] = 0
                                            THEN 1 ELSE 0
               ELSE /\ rc_strong[r][t] = 0
                    /\ rc_destroyed[r][t] = 0

\* C23 witness: run 1 has returned; the handle of task 0 lives on through one
\* clone that was cloned from a clone and survived a wake by value, the
\* handle of task 1 is destroyed
C23_Witness ==
    /\ rc_run = 1
    /\ ~rc_active
    /\ rc_last = "wake"
    /\ rc_strong[1][0] = 1
    /\ rc_clones[1][0] = 1
    /\ rc_destroyed[1][1] = 1

==========================================================================
